---------------------------- MODULE Spec2Model ----------------------------
(***************************************************************************)
(* A model of the rule/placement engine of rummikub_game.py: the tile      *)
(* tables (game_object_database, image_database, PLAYER_1, PLAYER_2), the  *)
(* adjacency grouper, the meld validator with its commit and rollback, the *)
(* drag-and-snap move, the draw, the rack sorts, auto-play and the         *)
(* opponent's turn.                                                        *)
(*                                                                         *)
(* A tile key "images/tiles/1-15 RED/RED_4_12.png" is the pair <<4, 12>>:  *)
(* the colour digit and the number that the code parses back out of the    *)
(* key.  A position is a pixel pair <<x, y>> (the top-left corner of the   *)
(* tile's rect).  Python dicts keep insertion order, so every dict whose   *)
(* iteration order the code depends on is a sequence of keys plus a        *)
(* function on keys.                                                       *)
(***************************************************************************)
EXTENDS Integers, Sequences, FiniteSets, TLC

(***************************************************************************)
(* Bounds of the model and configuration.  The modules surface_info and    *)
(* draw_grids (window, board and rack geometry, snap_to_grid) are not part *)
(* of the source tree; their values here are a small configuration.        *)
(***************************************************************************)
NumColors == 5
MaxNumber == 7
BoardCols == 5
BoardRows == 2
MaxSteps == 3
\* the tiles dealt to each player (15 at line 376), how many picks a deal is
\* followed for, and the picks random.randint is taken to return
HandSize == 2
DealLen == 2 * HandSize + 1
DealPicks == {p \in (0..(NumColors - 1)) \X (1..MaxNumber) : p[1] <= 1 /\ p[2] <= 3}

TileW == 52
TileH == 73
TILE_MARGIN_X == 10
RackOriginX == 273

WINDOW_WIDTH == 746
WINDOW_HEIGHT == 600
RACK_W == 210
RACK_H == 83
BIG_BOX_X == 52
BIG_BOX_Y == 73

BIG_BOX_POSITION == <<BIG_BOX_X, BIG_BOX_Y>>
BIG_BOX_WIDTH == BoardCols * TileW
BIG_BOX_HEIGHT == BoardRows * TileH

\* get_game_object: SIZE and COORDINATES of the two rack images
Rack1Size == <<RACK_W, RACK_H>>
Rack2Size == <<RACK_W - 10, RACK_H>>
Rack1Coord == <<(WINDOW_WIDTH \div 2) - (Rack1Size[1] \div 2), WINDOW_HEIGHT - Rack1Size[2]>>
Rack2Coord == <<(WINDOW_WIDTH \div 2) - (Rack2Size[1] \div 2), WINDOW_HEIGHT - Rack2Size[2] * 2>>

Tiles == (1..NumColors) \X (1..MaxNumber)
Color(t) == t[1]
Number(t) == t[2]

NoPos == <<-1, -1>>
Alias == <<-2, -2>>
NoTile == <<0, 0>>

\* python range(a, b, step) as a sequence, and membership in range(a, b)
RECURSIVE RangeSeq(_, _, _)
RangeSeq(a, b, step) == IF a >= b THEN <<>> ELSE <<a>> \o RangeSeq(a + step, b, step)
InRange(v, a, b) == a <= v /\ v < b

SeqToSet(s) == {s[i] : i \in 1..Len(s)}
Contains(s, e) == \E i \in 1..Len(s) : s[i] = e
IndexOf(s, e) == CHOOSE i \in 1..Len(s) : s[i] = e /\ \A j \in 1..(i - 1) : s[j] # e
RemoveAll(s, S) == SelectSeq(s, LAMBDA e : e \notin S)
AppendNew(s, e) == IF Contains(s, e) THEN s ELSE Append(s, e)

RECURSIVE Flatten(_)
Flatten(ss) == IF ss = <<>> THEN <<>> ELSE Head(ss) \o Flatten(Tail(ss))

\* list.remove(e): the first occurrence goes
RemoveFirst(s, e) ==
    LET i == IndexOf(s, e) IN SubSeq(s, 1, i - 1) \o SubSeq(s, i + 1, Len(s))


(***************************************************************************)
(* The tile tables as one value.                                           *)
(*   godPos/godOrder  game_object_database: the rect (x, y) of each tile   *)
(*                    key and the insertion order of the keys              *)
(*   snap/idbOrder    image_database: entry [1], the committed coordinates *)
(*                    (the snapshot), and the insertion order of the keys  *)
(*   p1/p1rect        PLAYER_1: the keys in insertion order and the rect   *)
(*                    of each value; Alias when that rect is the very      *)
(*                    object game_object_database holds                    *)
(*   p2               PLAYER_2: the opponent's rack                        *)
(***************************************************************************)
InGod(W, t) == W.godPos[t] # NoPos
InIdb(W, t) == W.snap[t] # NoPos
InP1(W, t) == Contains(W.p1, t)
P1Pos(W, t) == IF W.p1rect[t] = Alias THEN W.godPos[t] ELSE W.p1rect[t]

(***************************************************************************)
(* get_tile_by_position                                                    *)
(***************************************************************************)
\* lines 763-767: the centre of the tile's rect lies inside BIG_BOX
CenterInBox(p) ==
    LET cx == p[1] + TileW \div 2
        cy == p[2] + TileH \div 2
    IN  /\ BIG_BOX_X <= cx /\ cx <= BIG_BOX_X + BIG_BOX_WIDTH
        /\ BIG_BOX_Y <= cy /\ cy <= BIG_BOX_Y + BIG_BOX_HEIGHT

\* lines 760-768: data_list, in the order of game_object_database
DataList(W) ==
    LET inBox == SelectSeq(W.godOrder, LAMBDA t : CenterInBox(W.godPos[t]))
    IN  [i \in 1..Len(inBox) |-> <<inBox[i], W.godPos[inBox[i]]>>]

\* lines 770-771: the sort key (y, x)
SortKeyLeq(a, b) == a[2][2] < b[2][2] \/ (a[2][2] = b[2][2] /\ a[2][1] <= b[2][1])

\* python's sorted(): stable
RECURSIVE InsertSorted(_, _)
InsertSorted(s, e) ==
    IF s = <<>> THEN <<e>>
    ELSE IF SortKeyLeq(s[Len(s)], e) THEN Append(s, e)
    ELSE Append(InsertSorted(SubSeq(s, 1, Len(s) - 1), e), s[Len(s)])

RECURSIVE SortedByDimensions(_)
SortedByDimensions(s) ==
    IF s = <<>> THEN <<>>
    ELSE InsertSorted(SortedByDimensions(SubSeq(s, 1, Len(s) - 1)), s[Len(s)])

\* lines 774-777: dimensions_dict, the rows (one per y) in ascending y
RECURSIVE RowsOf(_)
RowsOf(sorted) ==
    IF sorted = <<>> THEN <<>>
    ELSE LET y == sorted[1][2][2]
         IN  <<SelectSeq(sorted, LAMBDA it : it[2][2] = y)>>
             \o RowsOf(SelectSeq(sorted, LAMBDA it : it[2][2] # y))

\* lines 800-804
AdjacentItems(a, b) ==
    /\ a[2][2] = b[2][2]
    /\ \/ a[2][1] + TileW = b[2][1]
       \/ a[2][1] - TileW = b[2][1]
       \/ a[2][1] = b[2][1] + TileW
       \/ a[2][1] = b[2][1] - TileW

\* lines 795-820: the scan of one row of two or more items; acc holds
\* temp_combination, the combinations appended so far and filtering_list
RECURSIVE ScanRow(_, _, _)
ScanRow(items, i, acc) ==
    IF i + 1 > Len(items)
    THEN [acc EXCEPT !.final = Append(acc.final, acc.temp), !.temp = <<>>]
    ELSE IF AdjacentItems(items[i], items[i + 1])
         THEN ScanRow(items, i + 1,
                      [acc EXCEPT !.temp = AppendNew(AppendNew(acc.temp, items[i]), items[i + 1])])
         ELSE ScanRow(items, i + 1,
                      [acc EXCEPT !.filt = acc.filt \o <<items[i], items[i + 1]>>,
                                  !.final = Append(acc.final, acc.temp),
                                  !.temp = <<>>])

RECURSIVE ScanRows(_, _)
ScanRows(rows, acc) ==
    IF rows = <<>> THEN acc
    ELSE ScanRows(Tail(rows), ScanRow(Head(rows), 1, acc))

\* lines 825-829: one pass of is_filtered; the list shrinks under the loop
\* that walks it, so the element after a removed one is skipped
InSomeSublist(e, subs) == \E k \in 1..Len(subs) : Contains(subs[k], e)

RECURSIVE FilterPass(_, _, _)
FilterPass(filt, idx, subs) ==
    IF idx > Len(filt) THEN filt
    ELSE IF InSomeSublist(filt[idx], subs)
         THEN FilterPass(RemoveFirst(filt, filt[idx]), idx + 1, subs)
         ELSE FilterPass(filt, idx + 1, subs)

RECURSIVE FilterPasses(_, _, _)
FilterPasses(filt, n, subs) ==
    IF n = 0 THEN filt ELSE FilterPasses(FilterPass(filt, 1, subs), n - 1, subs)

\* lines 837-843: the items of one-item rows that occur once and are in no
\* combination
RemainingItems(single, combinations) ==
    SelectSeq(single,
              LAMBDA it : /\ Cardinality({j \in 1..Len(single) : single[j] = it}) = 1
                          /\ ~InSomeSublist(it, combinations))

\* lines 844-845: they form one more combination
AppendNonEmpty(combinations, remaining) ==
    IF Len(remaining) > 0 THEN Append(combinations, remaining) ELSE combinations

\* lines 831-835: what is_filtered left of filtering_list, one combination each
Singletons(filt) == [i \in 1..Len(filt) |-> <<filt[i]>>]

\* lines 822-835
FilterRounds == 15
Combinations(final, filtering_list) ==
    final \o Singletons(FilterPasses(filtering_list, FilterRounds, final))

\* lines 837-846
WithRemaining(combinations, single) ==
    AppendNonEmpty(combinations, RemainingItems(single, combinations))

\* lines 822-846
ClustersOfScan(scan, single) ==
    WithRemaining(Combinations(SelectSeq(scan.final, LAMBDA c : c # <<>>), scan.filt), single)

\* lines 779-820: rows of two or more items are scanned, the others set aside
ClustersOfRows(rows) ==
    ClustersOfScan(ScanRows(SelectSeq(rows, LAMBDA r : Len(r) > 1),
                            [temp |-> <<>>, final |-> <<>>, filt |-> <<>>]),
                   Flatten(SelectSeq(rows, LAMBDA r : Len(r) = 1)))

\* lines 744-847: the candidate clusters, each a sequence of <<tile, position>>
get_tile_by_position(W) == ClustersOfRows(RowsOf(SortedByDimensions(DataList(W))))


(***************************************************************************)
(* update_score, update_values, check_logic                                *)
(***************************************************************************)
\* lines 73-79, called from lines 917-919 with the rect of the upper rack image
InRackArea(p) ==
    LET rack_x == (WINDOW_WIDTH \div 2) - (Rack2Size[1] \div 2)
        rack_y == WINDOW_HEIGHT - Rack2Size[2] * 2 + Rack2Size[2]
    IN  /\ InRange(p[1], Rack2Coord[1], rack_x + Rack2Size[1])
        /\ InRange(p[2], Rack2Coord[2] - Rack2Size[2], rack_y + Rack2Size[2])

\* lines 55-84
update_score(W) ==
    [W EXCEPT !.p1 = SelectSeq(W.p1, LAMBDA t : InRackArea(P1Pos(W, t)))]

\* lines 922-934 (and 962-974, 981-993): every tile rect goes back to the
\* committed coordinates; "key in PLAYER_1.items()" is never true
Rollback(W) ==
    [W EXCEPT !.godPos = [t \in Tiles |-> IF InGod(W, t) THEN W.snap[t] ELSE NoPos]]

\* lines 865-872
all_same_numbers_satisfied(c) == \A i \in 1..Len(c) : Number(c[i][1]) = Number(c[1][1])
\* the colour test of line 867 with "==" in place of "!="
all_different_color_satisfied_same(c) == \A i \in 2..Len(c) : Color(c[i][1]) = Color(c[1][1])
all_different_color_satisfied(c) == \A i \in 2..Len(c) : Color(c[i][1]) # Color(c[1][1])
all_same_color_satisfied(c) == \A i \in 2..Len(c) : Color(c[i][1]) = Color(c[1][1])

\* lines 874-885
all_even_numbers_satisfied(c) ==
    /\ \A i \in 1..(Len(c) - 1) :
          LET current_value == Number(c[i][1])
              next_value == Number(c[i + 1][1])
          IN  ~(current_value % 2 # 0
                \/ (current_value >= next_value /\ current_value + 2 # next_value))
    /\ Number(c[Len(c)][1]) % 2 = 0

\* lines 887-899
all_odd_numbers_satisfied(c) ==
    /\ \A i \in 1..(Len(c) - 1) :
          LET current_value == Number(c[i][1])
              next_value == Number(c[i + 1][1])
          IN  ~(current_value % 2 = 0
                \/ (current_value >= next_value /\ current_value + 2 # next_value))
    /\ Number(c[Len(c)][1]) % 2 # 0

\* lines 901-902: "and" binds tighter than "or"
MeldAccepted(c) ==
    \/ (all_same_numbers_satisfied(c) /\ all_different_color_satisfied(c))
    \/ (all_same_color_satisfied(c) /\ all_even_numbers_satisfied(c))
    \/ all_odd_numbers_satisfied(c)

\* lines 904-919: one item of an accepted cluster
CommitItem(W, it) ==
    LET t == it[1]
        pos == it[2]
        W1 == [W EXCEPT !.p1rect[t] = IF InP1(W, t) /\ @ # Alias THEN pos ELSE @,
                        !.godPos[t] = pos,
                        !.snap[t] = pos]
    IN  IF InGod(W, t) THEN update_score(W1) ELSE W

RECURSIVE CommitItems(_, _)
CommitItems(W, c) ==
    IF c = <<>> THEN W ELSE CommitItems(CommitItem(W, Head(c)), Tail(c))

\* lines 849-935: the tables afterwards, and the value returned
update_values(W, c) ==
    IF MeldAccepted(c)
    THEN [world |-> CommitItems(W, c), ok |-> TRUE]
    ELSE [world |-> Rollback(W), ok |-> FALSE]

\* lines 975-977
RECURSIVE UpdateAll(_, _, _)
UpdateAll(W, check_sum, status) ==
    IF check_sum = <<>> THEN [world |-> W, status |-> status]
    ELSE LET r == update_values(W, Head(check_sum))
         IN  UpdateAll(r.world, Tail(check_sum), Append(status, r.ok))

\* line 959: a cluster equal to one already in check_sum is not added again
RECURSIVE Dedup(_)
Dedup(cs) ==
    IF cs = <<>> THEN <<>>
    ELSE LET rest == Dedup(SubSeq(cs, 1, Len(cs) - 1))
         IN  IF Contains(rest, cs[Len(cs)]) THEN rest ELSE Append(rest, cs[Len(cs)])

\* line 950
SizesOk(clusters) == \A i \in 1..Len(clusters) : Len(clusters[i]) \in 3..5

\* lines 975-978: the status list and all(status)
Checked(permutation_values, r) ==
    [world |-> r.world, clusters |-> permutation_values, status |-> r.status,
     sizes |-> TRUE, handoff |-> \A i \in 1..Len(r.status) : r.status[i]]

\* lines 946-978 and 980-993
CheckClusters(W, permutation_values) ==
    IF permutation_values = <<>>
    THEN [world |-> Rollback(W), clusters |-> <<>>, status |-> <<>>,
          sizes |-> FALSE, handoff |-> FALSE]
    ELSE IF SizesOk(permutation_values)
         THEN Checked(permutation_values, UpdateAll(W, Dedup(permutation_values), <<>>))
         ELSE [world |-> Rollback(W), clusters |-> permutation_values,
               status |-> <<>>, sizes |-> FALSE, handoff |-> TRUE]

\* lines 937-993, up to the decision to run the opponent's turn: the tables,
\* the clusters found, the status list and all(status)
check_logic(W) == CheckClusters(W, get_tile_by_position(W))


(***************************************************************************)
(* play_ai_turn and add_tile_to_ai                                         *)
(***************************************************************************)
\* lines 673-675 (and 1072-1074): the board cells as [y, x], row by row
AllCells ==
    LET ys == RangeSeq(BIG_BOX_POSITION[2], BIG_BOX_POSITION[2] + BIG_BOX_HEIGHT, TileH)
        xs == RangeSeq(BIG_BOX_POSITION[1], BIG_BOX_POSITION[1] + BIG_BOX_WIDTH, TileW)
    IN  Flatten([i \in 1..Len(ys) |-> [j \in 1..Len(xs) |-> <<ys[i], xs[j]>>]])

\* lines 677-678: the committed coordinates lie in the board's ranges
SnapInBox(p) ==
    /\ InRange(p[1], BIG_BOX_POSITION[1], BIG_BOX_POSITION[1] + BIG_BOX_WIDTH)
    /\ InRange(p[2], BIG_BOX_POSITION[2], BIG_BOX_POSITION[2] + BIG_BOX_HEIGHT)

\* lines 676-679: list.remove of a cell that is not (or no longer) in the
\* list raises ValueError
RECURSIVE RemoveOccupied(_, _, _)
RemoveOccupied(W, keys, acc) ==
    IF keys = <<>> \/ acc.crash THEN acc
    ELSE LET p == W.snap[Head(keys)]
             cell == <<p[2], p[1]>>
         IN  IF ~SnapInBox(p) THEN RemoveOccupied(W, Tail(keys), acc)
             ELSE IF Contains(acc.cells, cell)
                  THEN RemoveOccupied(W, Tail(keys),
                                      [acc EXCEPT !.cells = RemoveFirst(acc.cells, cell)])
                  ELSE [acc EXCEPT !.crash = TRUE]

\* the free cells taken from the rects instead of the committed coordinates
calculate_empty_spaces_rects(W) ==
    RemoveOccupied([W EXCEPT !.snap = W.godPos], W.idbOrder,
                   [cells |-> AllCells, crash |-> FALSE])

\* lines 672-681 (and 1071-1080)
calculate_empty_spaces(W) ==
    RemoveOccupied(W, W.idbOrder, [cells |-> AllCells, crash |-> FALSE])

StreakLimit == 5

\* lines 684-693 (and 1083-1092): count is never reset, start_position is
RECURSIVE ScanStart(_, _, _, _)
ScanStart(e, i, count, start) ==
    IF i > Len(e) - 1 THEN start
    ELSE IF e[i][1] = e[i + 1][1] /\ e[i][2] + TileW = e[i + 1][2]
         THEN IF count + 1 = StreakLimit THEN Append(start, e[i])
              ELSE ScanStart(e, i + 1, count + 1, Append(start, e[i]))
         ELSE ScanStart(e, i + 1, count, <<>>)

\* lines 695-698 (and 1093-1096): <<c_x, c_y>>; start_position[0] of an empty
\* list raises IndexError
StartXY(start_position) ==
    IF start_position[1][2] # BIG_BOX_POSITION[1]
    THEN <<start_position[1][2] + TileW, start_position[1][1]>>
    ELSE <<start_position[1][2], start_position[1][1]>>

\* lines 662, 666-667 (and 146, 552): ascending by number
RECURSIVE SortByNumber(_)
SortByNumber(S) ==
    IF S = {} THEN <<>>
    ELSE LET t == CHOOSE u \in S : \A v \in S : Number(u) <= Number(v)
         IN  <<t>> \o SortByNumber(S \ {t})

\* lines 643-670: the rack of one parity grouped by colour digit, colours
\* ascending, each group ascending by number
Buckets(rack, parity) ==
    LET colours == SelectSeq([c \in 1..NumColors |-> c],
                      LAMBDA c : \E t \in rack : Color(t) = c /\ Number(t) % 2 = parity)
    IN  [i \in 1..Len(colours) |->
            SortByNumber({t \in rack : Color(t) = colours[i] /\ Number(t) % 2 = parity})]

\* lines 706 and 722
Playable(bucket) == Len(bucket) \in 3..5

\* lines 708-718 (and 724-733): one tile of a played bucket
RECURSIVE PlaceTiles(_, _, _, _)
PlaceTiles(W, tiles, c_x, c_y) ==
    IF tiles = <<>> THEN [world |-> W, c_x |-> c_x]
    ELSE LET t == Head(tiles)
             W1 == [W EXCEPT !.godPos[t] = <<c_x, c_y>>,
                             !.godOrder = AppendNew(@, t),
                             !.snap[t] = <<c_x, c_y>>,
                             !.idbOrder = AppendNew(@, t)]
         IN  PlaceTiles(W1, Tail(tiles), c_x + TileW, c_y)

\* lines 705-719 (and 721-734): the buckets of one parity; a margin of one
\* cell follows each played bucket
RECURSIVE PlaceBuckets(_, _, _, _, _)
PlaceRest(r, buckets, c_y, placed) ==
    PlaceBuckets(r.world, Tail(buckets), r.c_x + TileW, c_y, placed \o Head(buckets))
PlaceBuckets(W, buckets, c_x, c_y, placed) ==
    IF buckets = <<>> THEN [world |-> W, c_x |-> c_x, placed |-> placed]
    ELSE IF Playable(Head(buckets))
         THEN PlaceRest(PlaceTiles(W, Head(buckets), c_x, c_y), buckets, c_y, placed)
         ELSE PlaceBuckets(W, Tail(buckets), c_x, c_y, placed)

\* lines 703, 707, 723, 740
AiCanPlay(W) ==
    \E parity \in {0, 1} :
        LET b == Buckets(W.p2, parity) IN \E i \in 1..Len(b) : Playable(b[i])

\* lines 591-610: the keys a draw can produce (colour from randint(1, len - 1)),
\* none of them in game_object_database, PLAYER_2 or PLAYER_1
DrawColors == 1..(NumColors - 1)
Undrawn(W) ==
    {t \in Tiles : Color(t) \in DrawColors /\ ~InGod(W, t) /\ t \notin W.p2 /\ ~InP1(W, t)}

\* lines 612-615: load_image with coordinates (0, 0) enters the key in
\* image_database
add_tile_to_ai(W, t) ==
    [W EXCEPT !.p2 = @ \cup {t},
              !.snap[t] = <<0, 0>>,
              !.idbOrder = AppendNew(@, t)]

\* what the opponent's turn may draw: nothing when it plays; with no undrawn
\* key left the loop of lines 591-610 never ends
AiDrawChoices(W) == IF AiCanPlay(W) \/ Undrawn(W) = {} THEN {NoTile} ELSE Undrawn(W)

\* an uncaught exception leaves the tables as they are
AiCrash(W) == [world |-> W, placed |-> <<>>, drew |-> NoTile, end |-> "crash"]

\* lines 735-741: the played keys leave PLAYER_2; with nothing played a tile
\* is drawn
AiEnd(W, draw, od) ==
    IF od.placed # <<>>
    THEN [world |-> [od.world EXCEPT !.p2 = @ \ SeqToSet(od.placed)],
          placed |-> od.placed, drew |-> NoTile, end |-> "ok"]
    ELSE IF draw = NoTile
         THEN [world |-> W, placed |-> <<>>, drew |-> NoTile, end |-> "hang"]
         ELSE [world |-> add_tile_to_ai(od.world, draw), placed |-> <<>>,
               drew |-> draw, end |-> "ok"]

\* lines 721-734: the odd buckets follow the even ones on the same row
AiOdd(W, draw, c_y, ev) ==
    AiEnd(W, draw, PlaceBuckets(ev.world, Buckets(W.p2, 1), ev.c_x, c_y, ev.placed))

\* lines 702-719: the even buckets from the start position on
AiPlace(W, draw, xy) ==
    AiOdd(W, draw, xy[2], PlaceBuckets(W, Buckets(W.p2, 0), xy[1], xy[2], <<>>))

\* lines 695-698
AiStart(W, draw, start_position) ==
    IF start_position = <<>> THEN AiCrash(W) ELSE AiPlace(W, draw, StartXY(start_position))

\* lines 683-693
AiScan(W, draw, empty_space) ==
    IF empty_space.crash THEN AiCrash(W)
    ELSE AiStart(W, draw, ScanStart(empty_space.cells, 1, 0, <<>>))

\* lines 617-742 with is_delete = True: the tables afterwards, the tiles put
\* on the board in order, the tile drawn, and how the call ended
play_ai_turn(W, draw) == AiScan(W, draw, calculate_empty_spaces(W))


(***************************************************************************)
(* identify_rummikub_groups, identify_rummikub_runs and the two sorts      *)
(***************************************************************************)
\* lines 184-202: extract_color_from_filename finds no colour in a key with
\* forward slashes, so two keys match when their numbers are equal
RECURSIVE GroupsFrom(_, _, _)
GroupsFrom(keys, rack, seen) ==
    IF keys = <<>> THEN <<>>
    ELSE LET key == Head(keys)
         IN  IF key \in seen THEN GroupsFrom(Tail(keys), rack, seen)
             ELSE LET others == SelectSeq(rack, LAMBDA o : o # key /\ o \notin seen
                                                          /\ Number(o) = Number(key))
                      group == <<key>> \o others
                      seen2 == seen \cup SeqToSet(group)
                  IN  IF Len(group) >= 2
                      THEN <<group>> \o GroupsFrom(Tail(keys), rack, seen2)
                      ELSE GroupsFrom(Tail(keys), rack, seen2)

identify_rummikub_groups(rack) == GroupsFrom(rack, rack, {})

\* lines 149-163: the chains of one colour; neighbours differ by 2
RECURSIVE ChainScan(_, _, _, _)
ChainScan(tiles, i, current_run, runs) ==
    IF i > Len(tiles) - 1
    THEN IF Len(current_run) >= 2 THEN Append(runs, current_run) ELSE runs
    ELSE IF Number(tiles[i + 1]) - Number(tiles[i]) = 2
         THEN ChainScan(tiles, i + 1, Append(AppendNew(current_run, tiles[i]), tiles[i + 1]), runs)
         ELSE ChainScan(tiles, i + 1, <<>>,
                        IF Len(current_run) >= 2 THEN Append(runs, current_run) ELSE runs)

\* lines 137-141: the colours in the order they first occur
RECURSIVE FirstColors(_)
FirstColors(rack) ==
    IF rack = <<>> THEN <<>>
    ELSE LET rest == FirstColors(SubSeq(rack, 1, Len(rack) - 1))
         IN  AppendNew(rest, Color(rack[Len(rack)]))

\* lines 119-165
identify_rummikub_runs(rack) ==
    LET colours == FirstColors(rack)
        chains == [i \in 1..Len(colours) |->
                     ChainScan(SortByNumber({t \in SeqToSet(rack) : Color(t) = colours[i]}),
                               1, <<>>, <<>>)]
    IN  Flatten(chains)

\* lines 512-514 (521-523, 556-558, 566-568): a new rect for the tile, and the
\* same coordinates committed; the rect PLAYER_1 holds is the old one
Reposition(W, t, pos) ==
    [W EXCEPT !.p1rect[t] = IF InP1(W, t) /\ @ = Alias THEN W.godPos[t] ELSE @,
              !.godPos[t] = pos,
              !.snap[t] = pos]

\* lines 510-515 and 554-559: the matched tiles, side by side, no wrap
RECURSIVE LayMatched(_, _, _, _)
LayMatched(W, keys, c_x, c_y) ==
    IF keys = <<>> THEN [world |-> W, c_x |-> c_x]
    ELSE LayMatched(Reposition(W, Head(keys), <<c_x, c_y>>), Tail(keys),
                    c_x + TileW + 10, c_y)

\* lines 519-528 and 564-573: the other rack tiles, with the wrap
RECURSIVE LayOthers(_, _, _, _)
LayOthers(W, keys, c_x, c_y) ==
    IF keys = <<>> THEN W
    ELSE LET W1 == Reposition(W, Head(keys), <<c_x, c_y>>)
             x1 == c_x + TileW + 10
         IN  IF x1 + TileW > Rack2Coord[1] + Rack2Size[1]
             THEN LayOthers(W1, Tail(keys), Rack2Coord[1] + 5, c_y + TileH + 10)
             ELSE LayOthers(W1, Tail(keys), x1, c_y)

\* the loop of lines 519 and 564 over game_object_database in place of
\* PLAYER_1
LayRest_every(W, matched, m) ==
    LayOthers(m.world, SelectSeq(W.godOrder, LAMBDA t : ~Contains(matched, t)), m.c_x,
              Rack2Coord[2])

\* lines 517-528 and 562-573: the rack tiles that are not matched follow
LayRest(W, matched, m) ==
    LayOthers(m.world, SelectSeq(W.p1, LAMBDA t : ~Contains(matched, t)), m.c_x, Rack2Coord[2])

\* lines 506-528 and 550-573
LayAll(W, matched) ==
    LayRest(W, matched, LayMatched(W, matched, Rack2Coord[1] + 5, Rack2Coord[2]))

\* lines 491-531
rearrange_tiles_by_groups(W, groups) == LayAll(W, Flatten(groups))

\* line 552: list.sort by number, stable
RECURSIVE InsertByNumber(_, _)
InsertByNumber(s, e) ==
    IF s = <<>> THEN <<e>>
    ELSE IF Number(s[Len(s)]) <= Number(e) THEN Append(s, e)
    ELSE Append(InsertByNumber(SubSeq(s, 1, Len(s) - 1), e), s[Len(s)])

RECURSIVE StableSortByNumber(_)
StableSortByNumber(s) ==
    IF s = <<>> THEN <<>>
    ELSE InsertByNumber(StableSortByNumber(SubSeq(s, 1, Len(s) - 1)), s[Len(s)])

\* lines 533-576: nothing moves when no run was found
rearrange_tiles_by_runs(W, runs) ==
    IF runs = <<>> THEN W ELSE LayAll(W, StableSortByNumber(Flatten(runs)))


(***************************************************************************)
(* play_for_me                                                             *)
(***************************************************************************)
\* lines 1098-1105: the rect and the committed coordinates are written, then
\* "del PLAYER_1[key]" raises KeyError for a key that already left
set_tile_position(st, key, pos_x, pos_y) ==
    LET W == st.world
        W1 == [W EXCEPT !.godPos[key] = <<pos_x, pos_y>>,
                        !.snap[key] = <<pos_x, pos_y>>]
    IN  IF InP1(W, key)
        THEN [st EXCEPT !.world = [W1 EXCEPT !.p1 = RemoveAll(@, {key})],
                        !.moved = Append(@, key)]
        ELSE [st EXCEPT !.world = W1, !.crash = TRUE]

\* lines 1109-1111 and 1116-1121: the keys of one group or run; for a run,
\* "all(run_key not in groups)" is evaluated when groups is not empty, and
\* all() of a bool raises TypeError
RECURSIVE AutoKeys(_, _, _, _)
AutoKeysRest(st1, keys, c_y, type_error) ==
    IF st1.crash THEN st1
    ELSE AutoKeys([st1 EXCEPT !.c_x = @ + TileW], Tail(keys), c_y, type_error)
AutoKeys(st, keys, c_y, type_error) ==
    IF keys = <<>> \/ st.crash THEN st
    ELSE IF type_error THEN [st EXCEPT !.crash = TRUE]
    ELSE AutoKeysRest(set_tile_position(st, Head(keys), st.c_x, c_y), keys, c_y, type_error)

\* lines 1107-1112 and 1114-1122
RECURSIVE AutoMelds(_, _, _, _)
AutoMeldsRest(st1, melds, c_y, type_error) ==
    IF st1.crash THEN st1
    ELSE AutoMelds([st1 EXCEPT !.c_x = @ + TileW], Tail(melds), c_y, type_error)
AutoMelds(st, melds, c_y, type_error) ==
    IF melds = <<>> \/ st.crash THEN st
    ELSE IF Len(Head(melds)) \in 3..5
         THEN AutoMeldsRest(AutoKeys(st, Head(melds), c_y, type_error), melds, c_y, type_error)
         ELSE AutoMelds(st, Tail(melds), c_y, type_error)

\* the tables afterwards, the keys moved, and whether the call raised
AutoResult(r) == [world |-> r.world, moved |-> r.moved, crash |-> r.crash]
AutoCrash(W) == [world |-> W, moved |-> <<>>, crash |-> TRUE]

\* lines 1114-1122: the runs follow the groups on the same row
AutoRuns(W, c_y, groups, g) ==
    AutoResult(AutoMelds([g EXCEPT !.c_x = @ + TileW], identify_rummikub_runs(W.p1),
                         c_y, Len(groups) > 0))

\* lines 1107-1112: the groups from the start position on
AutoGroups(W, xy, groups) ==
    AutoRuns(W, xy[2], groups,
             AutoMelds([world |-> W, c_x |-> xy[1], crash |-> FALSE, moved |-> <<>>],
                       groups, xy[2], FALSE))

\* lines 1093-1096
AutoStart(W, start_position) ==
    IF start_position = <<>> THEN AutoCrash(W)
    ELSE AutoGroups(W, StartXY(start_position), identify_rummikub_groups(W.p1))

\* lines 1082-1092
AutoScan(W, empty_space) ==
    IF empty_space.crash THEN AutoCrash(W)
    ELSE AutoStart(W, ScanStart(empty_space.cells, 1, 0, <<>>))

\* lines 1067-1122
play_for_me(W) == AutoScan(W, calculate_empty_spaces(W))

(***************************************************************************)
(* move_tiles and add_tile_to_rack                                         *)
(***************************************************************************)
\* lines 1368-1371 and 1013: zip pairs the i-th tile key of
\* game_object_database with the i-th tile value of image_database; this is
\* entry [1] of that value
PairedSnap(W, t) == W.snap[W.idbOrder[IndexOf(W.godOrder, t)]]

\* where a dragged tile can be released: over a board cell, or off the board
OffBoard == NoPos
DropTargets == {<<c[2], c[1]>> : c \in SeqToSet(AllCells)} \cup {OffBoard}

\* draw_grids.snap_to_grid(rect, GRID_WIDTH, GRID_HEIGHT, BIG_BOX, original):
\* the nearest cell and True, or the original coordinates and False when the
\* tile was released off the board
snap_to_grid(target, original) ==
    IF target = OffBoard THEN <<original, FALSE>> ELSE <<target, TRUE>>

\* the release also writes the coordinates image_database holds
move_tiles_commit(W, t, target) ==
    [W EXCEPT !.godPos[t] = snap_to_grid(target, PairedSnap(W, t))[1],
              !.snap[t] = snap_to_grid(target, PairedSnap(W, t))[1]]

\* lines 1013-1047: tile t is pressed, moved and released over target; the
\* inner loop (lines 1022-1063) reads only quit, pointer-move and release
\* events and writes only the rect of this key.  The for loop then goes on: a
\* later key whose rect holds the release point is dragged the same way, which
\* is one more event of the same kind
move_tiles(W, t, target) ==
    LET snapped == snap_to_grid(target, PairedSnap(W, t))
    IN  [W EXCEPT !.godPos[t] = snapped[1]]

\* lines 438-446 and 460-462: where the drawn tile goes, from the rect of the
\* last value of PLAYER_1
NewTilePosition(W) ==
    LET last_pos == P1Pos(W, W.p1[Len(W.p1)])
        x == last_pos[1] + TileW + TILE_MARGIN_X
    IN  IF x > Rack2Size[1] + RackOriginX
        THEN <<Rack1Coord[1] + TILE_MARGIN_X, last_pos[2] + Rack2Size[2]>>
        ELSE <<x, last_pos[2]>>

\* lines 463-465: the keys the loop can leave with
HumanUndrawn(W) == {t \in Tiles : Color(t) \in DrawColors /\ ~InGod(W, t) /\ t \notin W.p2}

\* lines 471-475
is_satisfied(W) == NewTilePosition(W)[1] < Rack2Size[1] + RackOriginX

\* lines 481-487: the new key enters image_database, game_object_database
\* and PLAYER_1 (whose rect is the one game_object_database holds)
AddHumanTile(W, t) ==
    LET pos == NewTilePosition(W)
    IN  [W EXCEPT !.snap[t] = pos,
                  !.idbOrder = AppendNew(@, t),
                  !.godPos[t] = pos,
                  !.godOrder = AppendNew(@, t),
                  !.p1 = Append(@, t),
                  !.p1rect[t] = Alias]


(***************************************************************************)
(* The state.                                                              *)
(***************************************************************************)
VARIABLES
    godPos,     \* game_object_database: tile key -> rect position, NoPos if absent
    godOrder,   \* game_object_database: the tile keys in insertion order
    snap,       \* image_database: tile key -> committed coordinates, NoPos if absent
    idbOrder,   \* image_database: the tile keys in insertion order
    p1,         \* PLAYER_1: the keys in insertion order
    p1rect,     \* PLAYER_1: the rect of each value (Alias: the rect of godPos)
    p2,         \* PLAYER_2: the keys
    run,        \* "running", "crashed" (an uncaught exception) or "hung"
    budget,     \* how many more events, of each kind and in all, the model follows
    dragging,   \* move_tiles: the key its loop still holds after a release, or NoTile
    last        \* what the last event did (history, read by the properties)

vars == <<godPos, godOrder, snap, idbOrder, p1, p1rect, p2, run, budget, dragging, last>>

World ==
    [godPos |-> godPos, godOrder |-> godOrder, snap |-> snap, idbOrder |-> idbOrder,
     p1 |-> p1, p1rect |-> p1rect, p2 |-> p2]

SetWorld(W) ==
    /\ godPos' = W.godPos
    /\ godOrder' = W.godOrder
    /\ snap' = W.snap
    /\ idbOrder' = W.idbOrder
    /\ p1' = W.p1
    /\ p1rect' = W.p1rect
    /\ p2' = W.p2

\* lines 405-422: the rack positions of the dealt tiles, in order
RECURSIVE InitialPositions(_, _, _)
InitialPositions(n, c_x, c_y) ==
    IF n = 0 THEN <<>>
    ELSE LET x1 == c_x + TileW + 10
         IN  IF x1 + TileW > Rack2Size[1] + Rack2Coord[1]
             THEN <<<<c_x, c_y>>>> \o InitialPositions(n - 1, Rack2Coord[1], Rack2Coord[2] + Rack2Size[2])
             ELSE <<<<c_x, c_y>>>> \o InitialPositions(n - 1, x1, c_y)

\* lines 1356-1358: the tables after the deal of the human rack h (in dict
\* order) and the opponent's rack o
place_initial_tiles(h, o) ==
    LET pos == InitialPositions(Len(h), Rack2Coord[1] + 5, Rack2Coord[2])
        at == [t \in Tiles |-> IF Contains(h, t) THEN pos[IndexOf(h, t)] ELSE NoPos]
    IN  [godPos |-> at, godOrder |-> h, snap |-> at, idbOrder |-> h,
         p1 |-> h, p1rect |-> [t \in Tiles |-> IF Contains(h, t) THEN Alias ELSE NoPos],
         p2 |-> o]

\* python str() of a natural number, as its decimal digits
RECURSIVE Str(_)
Str(n) == IF n < 10 THEN <<n>> ELSE Str(n \div 10) \o <<n % 10>>

\* line 380: the text the deal remembers a pick by
is_present(random_tile) == Str(random_tile[1]) \o Str(random_tile[2])

\* surface_info.TILES_IMAGES_PATHS[a][b]: the path, which load_image (line
\* 253) returns as the key, of the tile of colour a + 1 and number b
TILES_IMAGES_PATHS(random_tile) == <<random_tile[1] + 1, random_tile[2]>>

\* only the pick before this one is remembered
NotPresent_last(random_tile_temp, key) ==
    random_tile_temp = <<>> \/ random_tile_temp[Len(random_tile_temp)] # key

\* line 382: the pick is new
NotPresent(random_tile_temp, key) == ~Contains(random_tile_temp, key)

\* lines 375-387: the two loops, fed with the picks random.randint returns;
\* done tells whether both racks were filled before the picks ran out
RECURSIVE draw_initial_tiles(_, _, _, _)
draw_initial_tiles(picks, random_tile_temp, h, o) ==
    IF Len(h) = HandSize /\ Len(o) = HandSize THEN [done |-> TRUE, h |-> h, o |-> o]
    ELSE IF picks = <<>> THEN [done |-> FALSE, h |-> h, o |-> o]
    ELSE IF ~NotPresent(random_tile_temp, is_present(Head(picks)))
         THEN draw_initial_tiles(Tail(picks), random_tile_temp, h, o)
         ELSE IF Len(h) # HandSize
              THEN draw_initial_tiles(Tail(picks), Append(random_tile_temp, is_present(Head(picks))),
                                      AppendNew(h, TILES_IMAGES_PATHS(Head(picks))), o)
              ELSE draw_initial_tiles(Tail(picks), Append(random_tile_temp, is_present(Head(picks))),
                                      h, AppendNew(o, TILES_IMAGES_PATHS(Head(picks))))

\* lines 1320-1325: update_blit shows the winner and returns no button
GameOver(W) == W.p2 = {} \/ W.p1 = <<>>
Winner(W) == IF W.p1 = <<>> THEN "PLAYER 1" ELSE "PLAYER 2"

NoAi == [ran |-> FALSE, placed |-> <<>>, drew |-> NoTile, end |-> "none"]
NoEvent ==
    [op |-> "init", tile |-> NoTile, target |-> NoPos, press |-> FALSE, clusters |-> <<>>, status |-> <<>>,
     sizes |-> FALSE, handoff |-> FALSE, moved |-> <<>>, ai |-> NoAi]

AiRecord(a) == [ran |-> TRUE, placed |-> a.placed, drew |-> a.drew, end |-> a.end]
RunAfter(end) == IF end = "crash" THEN "crashed" ELSE IF end = "hang" THEN "hung" ELSE "running"

Spend(kind) ==
    /\ budget[kind] > 0
    /\ budget.steps > 0
    /\ budget' = [budget EXCEPT ![kind] = @ - 1, !.steps = @ - 1]

\* the buttons answer only while update_blit draws them (lines 1333-1336,
\* 1245-1272)
Buttons == run = "running" /\ ~GameOver(World) /\ dragging = NoTile

(***************************************************************************)
(* The events.                                                             *)
(***************************************************************************)
\* lines 1356-1358: the deal that starts a game
Dealt(d) ==
    /\ d.done
    /\ SetWorld(place_initial_tiles(d.h, SeqToSet(d.o)))
    /\ last' = [NoEvent EXCEPT !.op = "deal"]

Deal ==
    /\ run = "running"
    /\ dragging = NoTile
    /\ Spend("deal")
    /\ \E picks \in [1..DealLen -> DealPicks] :
          \E d \in {draw_initial_tiles(picks, <<>>, <<>>, <<>>)} : Dealt(d)
    /\ run' = run
    /\ dragging' = dragging

\* line 1015 after a release: the rect of key u can hold the point of the
\* release, the middle of the cell the tile was dropped on or, for a release
\* off the board, any point there
UnderPointer(W, u, target) ==
    IF target = OffBoard THEN ~CenterInBox(W.godPos[u]) ELSE W.godPos[u] = target

\* lines 1013-1021: the for loop goes on after the release of t; the first
\* later key whose rect holds the pointer enters the loop of line 1022
\* without a pointer event of its own
NextDragged(W, t, target) ==
    {u \in SeqToSet(W.godOrder) :
        /\ IndexOf(W.godOrder, u) > IndexOf(W.godOrder, t)
        /\ UnderPointer(W, u, target)
        /\ \A v \in SeqToSet(W.godOrder) :
              (IndexOf(W.godOrder, t) < IndexOf(W.godOrder, v)
               /\ IndexOf(W.godOrder, v) < IndexOf(W.godOrder, u))
              => W.godPos[v] # W.godPos[u]}

\* lines 1037-1047 and 1013: tile t is released over target; move_tiles
\* returns, or its loop goes on with a later key
Released(t, target, press) ==
    /\ SetWorld(move_tiles(World, t, target))
    /\ dragging' \in {NoTile} \cup NextDragged(move_tiles(World, t, target), t, target)
    /\ last' = [NoEvent EXCEPT !.op = "drag", !.tile = t, !.target = target, !.press = press]

\* game_status 1367-1371 and move_tiles: a click on a tile, which then follows
\* the pointer until the next release
Drag ==
    /\ run = "running"
    /\ dragging = NoTile
    /\ Spend("drag")
    /\ \E t \in SeqToSet(godOrder), target \in DropTargets : Released(t, target, TRUE)
    /\ run' = run

\* lines 1022-1063 for the key the loop went on with: it follows the pointer
\* until the next release
Redrag ==
    /\ run = "running"
    /\ dragging # NoTile
    /\ budget.steps > 0
    /\ budget' = [budget EXCEPT !.steps = @ - 1]
    /\ \E target \in DropTargets : Released(dragging, target, FALSE)
    /\ run' = run

\* what a validate request leaves in the history
ValidateEvent(v, ai) ==
    [NoEvent EXCEPT !.op = "validate", !.clusters = v.clusters, !.status = v.status,
                    !.sizes = v.sizes, !.handoff = v.handoff, !.ai = ai]

\* line 979: the opponent's turn that ends the request
HandOff(v, a) ==
    /\ SetWorld(a.world)
    /\ run' = RunAfter(a.end)
    /\ dragging' = dragging
    /\ last' = ValidateEvent(v, AiRecord(a))

\* lines 975-979 and 994
Validated(v) ==
    IF v.handoff
    THEN \E d \in AiDrawChoices(v.world) : HandOff(v, play_ai_turn(v.world, d))
    ELSE /\ SetWorld(v.world)
         /\ run' = run
         /\ dragging' = dragging
         /\ last' = ValidateEvent(v, NoAi)

\* the validate button: check_logic, and play_ai_turn when all(status)
Validate ==
    /\ Buttons
    /\ Spend("validate")
    /\ Validated(check_logic(World))

\* line 489: the opponent's turn that ends the draw
DrawEnd(t, a) ==
    /\ SetWorld(a.world)
    /\ run' = RunAfter(a.end)
    /\ dragging' = dragging
    /\ last' = [NoEvent EXCEPT !.op = "draw", !.tile = t, !.ai = AiRecord(a)]

\* lines 481-489
Drawn(t, W1) == \E d \in AiDrawChoices(W1) : DrawEnd(t, play_ai_turn(W1, d))

\* the draw button: add_tile_to_rack, which ends with play_ai_turn
Draw ==
    /\ Buttons
    /\ Spend("draw")
    /\ IF HumanUndrawn(World) = {}
       THEN /\ run' = "hung"
            /\ dragging' = dragging
            /\ last' = [NoEvent EXCEPT !.op = "draw"]
            /\ UNCHANGED <<godPos, godOrder, snap, idbOrder, p1, p1rect, p2>>
       ELSE \E t \in HumanUndrawn(World) :
               IF is_satisfied(World)
               THEN Drawn(t, AddHumanTile(World, t))
               ELSE /\ run' = run
                    /\ dragging' = dragging
                    /\ last' = [NoEvent EXCEPT !.op = "draw"]
                    /\ UNCHANGED <<godPos, godOrder, snap, idbOrder, p1, p1rect, p2>>

\* the upper half of the rearrange button (lines 1266-1268)
SortByGroups ==
    /\ Buttons
    /\ Spend("sort")
    /\ SetWorld(rearrange_tiles_by_groups(World, identify_rummikub_groups(p1)))
    /\ last' = [NoEvent EXCEPT !.op = "sort_by_groups"]
    /\ run' = run
    /\ dragging' = dragging

\* the lower half of the rearrange button (lines 1270-1272)
SortByRuns ==
    /\ Buttons
    /\ Spend("sort")
    /\ SetWorld(rearrange_tiles_by_runs(World, identify_rummikub_runs(p1)))
    /\ last' = [NoEvent EXCEPT !.op = "sort_by_runs"]
    /\ run' = run
    /\ dragging' = dragging

\* lines 1228-1230
AutoPlayed(r) ==
    /\ SetWorld(r.world)
    /\ run' = IF r.crash THEN "crashed" ELSE run
    /\ dragging' = dragging
    /\ last' = [NoEvent EXCEPT !.op = "auto_play", !.moved = r.moved]

\* the menu's "Play For Me" (lines 1228-1230)
AutoPlay ==
    /\ Buttons
    /\ Spend("auto")
    /\ AutoPlayed(play_for_me(World))

Next == Deal \/ Drag \/ Redrag \/ Validate \/ Draw \/ SortByGroups \/ SortByRuns \/ AutoPlay


(***************************************************************************)
(* The initial states: a deal (lines 1356-1358), then tiles of the human   *)
(* rack dragged onto board cells, each move an effect of move_tiles.       *)
(***************************************************************************)
Cell(row, col) == <<BIG_BOX_X + (col - 1) * TileW, BIG_BOX_Y + (row - 1) * TileH>>

InjectiveSeqs(S, n) == {s \in [1..n -> S] : \A i, j \in 1..n : s[i] = s[j] => i = j}

\* a cluster laid left to right on a row, from a column on
RECURSIVE LayCluster(_, _, _, _)
LayCluster(W, c, row, col) ==
    IF c = <<>> THEN W
    ELSE LayCluster(move_tiles(W, Head(c), Cell(row, col)), Tail(c), row, col + 1)

Budget(d, v, w, s, a, n) ==
    [deal |-> 0, drag |-> d, validate |-> v, draw |-> w, sort |-> s, auto |-> a, steps |-> n]

\* an opponent's rack with one playable bucket (colour 5, odd), and one with
\* two tiles in every bucket, so that the opponent has to draw
OppPlays == {<<5, 1>>, <<5, 3>>, <<5, 5>>, <<5, 2>>}
OppHolds == {t \in Tiles : Number(t) <= 4}

SmallTiles == {t \in Tiles : Color(t) <= 3 /\ Number(t) <= 3}
TinyTiles == {t \in Tiles : Color(t) <= 2 /\ Number(t) <= 3}
PairTiles == {t \in Tiles : Color(t) <= 3 /\ Number(t) <= 2}
FiveTiles == {t \in TinyTiles : Color(t) = 1 \/ Number(t) <= 2}

\* every same-number cluster of 3 to 5 pairwise distinct colours
GroupInputs ==
    UNION {{[i \in 1..n |-> <<cs[i], v>>] : cs \in InjectiveSeqs(1..NumColors, n)} :
              n \in 3..5, v \in 1..MaxNumber}

\* every one-colour cluster of 3 to 5 numbers ascending by 1
RunInputs ==
    {[i \in 1..n |-> <<c, s + i - 1>>] :
        c \in 1..NumColors, s \in 1..(MaxNumber - 2), n \in 3..5}

\* clusters of mixed shape: one colour twice and another once, odd numbers
\* of three colours, and one colour ascending by 2
MixedInputs ==
    { <<<<4, 1>>, <<4, 2>>, <<2, 4>>>>, <<<<1, 1>>, <<2, 3>>, <<3, 5>>>>,
      <<<<4, 1>>, <<4, 3>>, <<4, 5>>>>, <<<<3, 2>>, <<3, 4>>, <<3, 6>>>> }

ClusterInputs ==
    {c \in GroupInputs \cup RunInputs \cup MixedInputs \cup InjectiveSeqs(SmallTiles, 3)
           \cup InjectiveSeqs(TinyTiles, 4) \cup InjectiveSeqs(FiveTiles, 5) :
        \A i \in 1..Len(c) : c[i] \in Tiles \ OppPlays}

SpareTile == <<4, 6>>

InitWith(W, b) ==
    /\ godPos = W.godPos
    /\ godOrder = W.godOrder
    /\ snap = W.snap
    /\ idbOrder = W.idbOrder
    /\ p1 = W.p1
    /\ p1rect = W.p1rect
    /\ p2 = W.p2
    /\ run = "running"
    /\ budget = b
    /\ dragging = NoTile
    /\ last = NoEvent

\* one cluster on the first row, one more tile left in the rack
InitOneCluster ==
    \E c \in ClusterInputs :
        /\ SpareTile \notin SeqToSet(c)
        /\ InitWith(LayCluster(place_initial_tiles(c \o <<SpareTile>>, OppPlays), c, 1, 1),
                    Budget(0, 2, 0, 0, 0, 2))

\* the second cluster of a two-row layout: a step-1 run, a shuffled run, a
\* step-2 run, and two clusters that are too short
SecondInputs ==
    { <<<<4, 4>>, <<4, 5>>, <<4, 6>>>>, <<<<4, 4>>, <<4, 6>>, <<4, 5>>>>,
      <<<<4, 2>>, <<4, 4>>, <<4, 6>>>>, <<<<4, 4>>, <<4, 5>>>>, <<<<4, 4>>>> }

\* two clusters, one per row, in either scan order
InitTwoClusters ==
    \E a \in InjectiveSeqs(PairTiles, 3), b \in SecondInputs, top \in BOOLEAN :
        LET W0 == place_initial_tiles(a \o b, OppPlays)
            W1 == LayCluster(W0, a, IF top THEN 1 ELSE 2, 1)
        IN  InitWith(LayCluster(W1, b, IF top THEN 2 ELSE 1, 2), Budget(0, 2, 0, 0, 0, 2))

\* a group on the board and a tile in the rack, against an opponent who has
\* to draw; the human has drawn once, and the opponent after that
InitDrawGame ==
    LET c == <<<<1, 5>>, <<2, 5>>, <<3, 5>>>>
        W0 == LayCluster(place_initial_tiles(c \o <<SpareTile>>, OppHolds \ {<<1, 4>>}),
                         c, 1, 1)
        W1 == play_ai_turn(AddHumanTile(W0, <<4, 5>>), <<1, 6>>).world
    IN  InitWith(W1, Budget(1, 1, 1, 0, 0, MaxSteps))

\* a fresh deal
InitGame ==
    InitWith(place_initial_tiles(<<<<1, 3>>, <<1, 5>>, <<2, 5>>, <<3, 5>>>>,
                                 (OppHolds \ {<<1, 3>>}) \cup {<<5, 5>>}),
             Budget(1, 1, 1, 1, 1, MaxSteps))

\* the second cluster of a later turn: a group, a step-2 run, a mixed shape
LaterInputs ==
    { <<<<1, 2>>, <<2, 2>>, <<3, 2>>>>, <<<<3, 2>>, <<3, 4>>, <<3, 6>>>>,
      <<<<1, 2>>, <<2, 2>>, <<3, 4>>>> }

\* a later turn: the group a was committed in the first turn and the
\* opponent answered by drawing RED-3
LaterFirst(a, b, top, col) ==
    play_ai_turn(check_logic(LayCluster(place_initial_tiles(a \o b, {<<4, 1>>, <<4, 2>>}),
                                        a, IF top THEN 1 ELSE 2, col)).world, <<4, 3>>)

\* in the second turn the human drew BLUE-6 and the opponent RED-5
LaterSecond(a, b, top, col) ==
    play_ai_turn(AddHumanTile(LaterFirst(a, b, top, col).world, <<2, 6>>), <<4, 5>>)

\* now cluster b lies on the other row
LaterWorld(a, b, top, col) ==
    LayCluster(LaterSecond(a, b, top, col).world, b, IF top THEN 2 ELSE 1, 2)

\* only the layouts whose two opponent turns came to their end
InitLaterTurn ==
    \E b \in LaterInputs, top \in BOOLEAN, col \in 1..2 :
        /\ LaterFirst(<<<<1, 1>>, <<2, 1>>, <<3, 1>>>>, b, top, col).end = "ok"
        /\ LaterSecond(<<<<1, 1>>, <<2, 1>>, <<3, 1>>>>, b, top, col).end = "ok"
        /\ InitWith(LaterWorld(<<<<1, 1>>, <<2, 1>>, <<3, 1>>>>, b, top, col),
                    Budget(0, 2, 1, 0, 0, 2))

\* the end of the pool: the human holds a Group and one more tile, the
\* opponent every other key a draw can give but the tiles left in the pool
PoolGroup == <<<<1, 5>>, <<2, 5>>, <<3, 5>>>>
PoolHolds(left) ==
    {t \in Tiles : Color(t) \in DrawColors /\ t \notin SeqToSet(PoolGroup) /\ t # SpareTile}
        \ left
InitPoolEnd ==
    \E left \in {{}, {<<4, 7>>}} :
        InitWith(LayCluster(place_initial_tiles(PoolGroup \o <<SpareTile>>, PoolHolds(left)),
                            PoolGroup, 1, 1),
                 Budget(0, 1, 2, 0, 0, 3))

\* the rack was sorted (by groups or by runs) before the Group was laid
SortedRack == <<<<1, 5>>, <<2, 5>>, <<3, 5>>, <<4, 6>>, <<4, 4>>>>
SortedDeal(byGroups) ==
    IF byGroups
    THEN rearrange_tiles_by_groups(place_initial_tiles(SortedRack, OppPlays),
                                   identify_rummikub_groups(SortedRack))
    ELSE rearrange_tiles_by_runs(place_initial_tiles(SortedRack, OppPlays),
                                 identify_rummikub_runs(SortedRack))
InitSorted ==
    \E byGroups \in BOOLEAN, row \in 1..BoardRows :
        InitWith(LayCluster(SortedDeal(byGroups), PoolGroup, row, 1),
                 Budget(0, 1, 0, 2, 0, 3))

\* scenario A: the human rack is RED-1, RED-2, RED-3, laid in ascending
\* order on contiguous cells of one row of the empty board
ScenarioA == <<<<4, 1>>, <<4, 2>>, <<4, 3>>>>
\* two tiles of the rack dragged to cells of different rows
InitScattered ==
    \E a, b \in 1..BoardCols :
        InitWith(LayCluster(LayCluster(place_initial_tiles(SortedRack, OppPlays),
                                       <<<<1, 5>>>>, 1, a), <<<<4, 4>>>>, 2, b),
                 Budget(0, 1, 0, 0, 0, 1))

\* game_status before line 1356: PLAYER_1, PLAYER_2 and the tables hold no
\* tile yet
InitStart ==
    InitWith(place_initial_tiles(<<>>, {}), [Budget(0, 0, 0, 0, 0, 1) EXCEPT !.deal = 1])

InitScenarioA ==
    \E row \in 1..BoardRows, col \in 1..(BoardCols - 2) :
        InitWith(LayCluster(place_initial_tiles(ScenarioA, OppPlays), ScenarioA, row, col),
                 Budget(0, 1, 0, 0, 0, 1))

Init ==
    \/ InitOneCluster
    \/ InitTwoClusters
    \/ InitDrawGame
    \/ InitGame
    \/ InitLaterTurn
    \/ InitScenarioA
    \/ InitPoolEnd
    \/ InitSorted
    \/ InitStart
    \/ InitScattered

Spec == Init /\ [][Next]_vars

(***************************************************************************)
(* The notions the properties are stated with.                             *)
(***************************************************************************)
\* the tiles of a cluster, left to right
TilesOf(c) == [i \in 1..Len(c) |-> c[i][1]]

\* a Group: 3 to 5 tiles of one number and pairwise distinct colours
LegalGroup(ts) ==
    /\ Len(ts) \in 3..5
    /\ \A i \in 1..Len(ts) : Number(ts[i]) = Number(ts[1])
    /\ \A i, j \in 1..Len(ts) : i # j => Color(ts[i]) # Color(ts[j])

\* a Run: 3 to 5 tiles of one colour, the numbers ascending by exactly 1
LegalRun(ts) ==
    /\ Len(ts) \in 3..5
    /\ \A i \in 1..Len(ts) : Color(ts[i]) = Color(ts[1])
    /\ \A i \in 1..(Len(ts) - 1) : Number(ts[i + 1]) = Number(ts[i]) + 1

LegalMeld(c) == LegalGroup(TilesOf(c)) \/ LegalRun(TilesOf(c))

\* the clusters on the board before the step
Board == get_tile_by_position(World)

\* the step is a validate request
ValidateStep == last'.op = "validate"

\* the step committed cluster c where it lay / left it at its snapshot
Committed(c) ==
    \A i \in 1..Len(c) : snap'[c[i][1]] = c[i][2] /\ godPos'[c[i][1]] = c[i][2]
RolledBack(c) ==
    \A i \in 1..Len(c) : snap'[c[i][1]] = snap[c[i][1]] /\ godPos'[c[i][1]] = snap[c[i][1]]

\* the last event was a validate request that accepted every cluster
ValidateSucceeded ==
    /\ last.op = "validate"
    /\ last.sizes
    /\ last.status # <<>>
    /\ \A i \in 1..Len(last.status) : last.status[i]

\* where a tile is held
OnBoard(t) == godPos[t] # NoPos /\ CenterInBox(godPos[t])
InHumanRack(t) == Contains(p1, t) /\ ~OnBoard(t)
InOpponentRack(t) == t \in p2
Created == SeqToSet(idbOrder) \cup SeqToSet(godOrder) \cup SeqToSet(p1) \cup p2

(***************************************************************************)
(* The properties.                                                         *)
(***************************************************************************)
\* C1: atomicity of validate.  When every cluster on the board has 3 to 5
\* tiles, at least one is a legal meld and at least one is not, and the
\* validator rejects a cluster, the request fails as a whole: the opponent
\* does not play, the snapshot is unchanged and every tile of every cluster,
\* the legal ones included, is back at its snapshot position.
C1_AtomicValidate ==
    [][(/\ ValidateStep
        /\ SizesOk(Board)
        /\ \E i \in 1..Len(Board) : LegalMeld(Board[i])
        /\ \E i \in 1..Len(Board) : ~LegalMeld(Board[i])
        /\ \E i \in 1..Len(last'.status) : ~last'.status[i])
       => (/\ ~last'.ai.ran
           /\ snap' = snap
           /\ \A i \in 1..Len(Board) : RolledBack(Board[i]))]_vars

\* C2: the validator accepts every legal Run.  When every cluster has 3 to 5
\* tiles, a cluster of one colour whose numbers ascend by 1 from left to
\* right is committed where it lies.
C2_RunAccepted ==
    [][(ValidateStep /\ SizesOk(Board))
       => \A i \in 1..Len(Board) : LegalRun(TilesOf(Board[i])) => Committed(Board[i])]_vars

\* C3: the validator rejects every non-meld.  A cluster of 3 to 5 tiles that
\* is neither a Group nor a Run is not committed, and the request fails: the
\* opponent does not play.
C3_NonMeldRejected ==
    [][(ValidateStep /\ SizesOk(Board))
       => \A i \in 1..Len(Board) :
             ~LegalMeld(Board[i]) => (RolledBack(Board[i]) /\ ~last'.ai.ran)]_vars

\* C4: the validator accepts every legal Group.  When every cluster has 3 to
\* 5 tiles, a cluster of one number and pairwise distinct colours is
\* committed where it lies, whatever the order of its tiles.
C4_GroupAccepted ==
    [][(ValidateStep /\ SizesOk(Board))
       => \A i \in 1..Len(Board) : LegalGroup(TilesOf(Board[i])) => Committed(Board[i])]_vars

\* C4, witness: a validate request has just committed a Group whose colours
\* are not in ascending order
C4_Witness ==
    /\ last.op = "validate"
    /\ \E i \in 1..Len(last.clusters) :
          LET c == last.clusters[i]
          IN  /\ LegalGroup(TilesOf(c))
              /\ Color(c[1][1]) > Color(c[2][1])
              /\ \A k \in 1..Len(c) : snap[c[k][1]] = c[k][2] /\ godPos[c[k][1]] = c[k][2]

\* C5: conservation.  Every tile that was dealt or drawn is held by exactly
\* one of the human rack, the opponent's rack and the board.
C5_Conservation ==
    \A t \in Created :
        /\ OnBoard(t) \/ InHumanRack(t) \/ InOpponentRack(t)
        /\ ~(OnBoard(t) /\ InOpponentRack(t))
        /\ ~(InHumanRack(t) /\ InOpponentRack(t))

\* C6: cell exclusivity, of the opponent's placement.  Right after an
\* opponent's turn, no tile it placed on the board is on a cell that another
\* tile occupies.
C6_CellExclusive ==
    last.ai.ran =>
        \A k \in 1..Len(last.ai.placed) :
            LET t == last.ai.placed[k]
            IN  OnBoard(t) => \A u \in SeqToSet(godOrder) \ {t} : godPos[u] # godPos[t]

\* C7: turn hand-off.  A validate request runs the opponent's turn when every
\* cluster was accepted and committed, and only then.
C7_HandOff ==
    last.op = "validate" => (last.ai.ran <=> ValidateSucceeded)

\* C8: incomplete clusters.  When some cluster has fewer than 3 or more than
\* 5 tiles, the validate request leaves the snapshot and the human rack as
\* they were and every tile is back at its snapshot position.
C8_Incomplete ==
    [][(ValidateStep /\ Board # <<>> /\ ~SizesOk(Board))
       => (/\ snap' = snap
           /\ p1' = p1
           /\ \A t \in SeqToSet(godOrder) : godPos'[t] = snap[t])]_vars

\* C9: rollback of an invalid meld.  When the board holds one cluster, of 3
\* tiles of the human rack, that is neither a Group nor a Run, the validate
\* request fails, each tile is back at its snapshot position and the
\* snapshot is as it was.
C9_Rollback ==
    [][(/\ ValidateStep
        /\ Len(Board) = 1
        /\ Len(Board[1]) = 3
        /\ \A k \in 1..3 : Contains(p1, Board[1][k][1])
        /\ ~LegalMeld(Board[1]))
       => (/\ last'.status = <<FALSE>>
           /\ ~last'.ai.ran
           /\ snap' = snap
           /\ \A t \in SeqToSet(godOrder) : godPos'[t] = snap[t])]_vars

\* C10: commit replaces the snapshot.  Right after a validate request that
\* accepted every cluster, the snapshot position of every tile is its
\* current position.
C10_SnapshotReplaced ==
    ValidateSucceeded => \A t \in SeqToSet(godOrder) : snap[t] = godPos[t]

\* C11: idempotence of validate.  After a validate request that accepted
\* every cluster, with every tile of the board at its snapshot position, a
\* second validate request accepts every cluster again and leaves the
\* position and the snapshot of every tile as they were.
C11_Idempotent ==
    [][(/\ ValidateStep
        /\ ValidateSucceeded
        /\ \A t \in SeqToSet(godOrder) : OnBoard(t) => godPos[t] = snap[t])
       => (/\ last'.sizes
           /\ last'.status # <<>>
           /\ \A i \in 1..Len(last'.status) : last'.status[i]
           /\ \A t \in SeqToSet(godOrder) : godPos'[t] = godPos[t] /\ snap'[t] = snap[t])]_vars

\* C12: scenario A.  With the human rack RED-1, RED-2, RED-3 laid in
\* ascending order on contiguous cells of one row of an otherwise empty
\* board, a validate request accepts the cluster, the human rack is empty
\* afterwards and the game is over with the human as winner.
C12_ScenarioA ==
    [][(/\ ValidateStep
        /\ p1 = ScenarioA
        /\ godOrder = ScenarioA
        /\ Len(Board) = 1
        /\ TilesOf(Board[1]) = ScenarioA)
       => (/\ last'.status = <<TRUE>>
           /\ p1' = <<>>
           /\ GameOver(World)'
           /\ Winner(World)' = "PLAYER 1")]_vars

\* the tiles whose committed position is in the area of the human rack
HumanRackTiles == {t \in SeqToSet(godOrder) : InRackArea(snap[t])}

\* C13: game end.  The game is over exactly when no tile stands in the human
\* rack or the opponent's rack is empty, and the human is named the winner
\* exactly when no tile stands in the human rack.
C13_GameEnd ==
    /\ GameOver(World) <=> (HumanRackTiles = {} \/ p2 = {})
    /\ GameOver(World) => (Winner(World) = "PLAYER 1" <=> HumanRackTiles = {})

\* C14: frame of a successful validate.  A tile of the human rack that is
\* not on the board keeps its rack membership and its position across a
\* validate request that accepts every cluster.
C14_RackFrame ==
    [][(/\ ValidateStep
        /\ last'.sizes
        /\ last'.status # <<>>
        /\ \A i \in 1..Len(last'.status) : last'.status[i])
       => \A t \in SeqToSet(p1) :
             ~OnBoard(t) => (Contains(p1', t) /\ godPos'[t] = godPos[t])]_vars


\* a bucket (one colour, one parity, ascending) holds three neighbours whose
\* numbers increase by exactly 2
HasStepRun(bucket) ==
    \E i \in 1..(Len(bucket) - 2) :
        /\ Number(bucket[i + 1]) = Number(bucket[i]) + 2
        /\ Number(bucket[i + 2]) = Number(bucket[i + 1]) + 2

\* the rack holds a same-colour run of length >= 3 inside a parity subset
RackHasRun(rack) ==
    \E parity \in {0, 1} :
        \E i \in 1..Len(Buckets(rack, parity)) : HasStepRun(Buckets(rack, parity)[i])

\* C15: when the opponent's rack holds no same-colour run of length >= 3 in
\* either parity subset, the opponent's turn places no tile and draws exactly
\* one tile, so its rack grows by exactly one
C15_OpponentDraws ==
    [][(last'.ai.ran /\ ~RackHasRun(p2))
       => (/\ last'.ai.placed = <<>>
           /\ last'.ai.drew # NoTile
           /\ p2' = p2 \cup {last'.ai.drew}
           /\ Cardinality(p2') = Cardinality(p2) + 1)]_vars


\* a sequence of 3 to 5 tiles whose numbers increase by exactly 2
StepTwoMeld(bucket) ==
    /\ Len(bucket) \in 3..5
    /\ \A i \in 1..(Len(bucket) - 1) : Number(bucket[i + 1]) = Number(bucket[i]) + 2

\* the tiles of a set fall into melds of one colour and one parity
AllStepTwoMelds(S) ==
    \A parity \in {0, 1} :
        \A i \in 1..Len(Buckets(S, parity)) : StepTwoMeld(Buckets(S, parity)[i])

\* C16: every meld the opponent places is 3 to 5 tiles of one colour and one
\* parity whose numbers increase by exactly 2 (no number of that parity is
\* skipped), and the opponent plays whenever its rack holds such a sequence
C16_MeldShape ==
    [][last'.ai.ran
       => (/\ AllStepTwoMelds(SeqToSet(last'.ai.placed))
           /\ (RackHasRun(p2) /\ last'.ai.end = "ok") => last'.ai.placed # <<>>)]_vars


\* C17: right after an opponent's turn every tile it placed stands on a cell
\* inside the board that no other tile, committed or tentatively dropped,
\* occupies, and the tiles of one meld lie on consecutive cells of a single
\* row
C17_Placement ==
    last.ai.ran
    => \A k \in 1..Len(last.ai.placed) :
          /\ \E i \in 1..Len(AllCells) :
                 godPos[last.ai.placed[k]] = <<AllCells[i][2], AllCells[i][1]>>
          /\ \A u \in SeqToSet(godOrder) \ {last.ai.placed[k]} :
                 godPos[u] # godPos[last.ai.placed[k]]
          /\ (k > 1 /\ Color(last.ai.placed[k]) = Color(last.ai.placed[k - 1]))
             => godPos[last.ai.placed[k]] =
                    <<godPos[last.ai.placed[k - 1]][1] + TileW,
                      godPos[last.ai.placed[k - 1]][2]>>


\* worlds with the opponent rack and the committed board occupancy of W:
\* the tables filled in the opposite order, and every rect at its committed
\* coordinates (no tile tentatively dropped)
Reverse(s) == [i \in 1..Len(s) |-> s[Len(s) + 1 - i]]
TwinOrder(W) == [W EXCEPT !.idbOrder = Reverse(@), !.godOrder = Reverse(@)]
TwinRects(W) ==
    [W EXCEPT !.godPos = [t \in DOMAIN W.godPos |-> IF InGod(W, t) THEN W.snap[t] ELSE NoPos]]
Twins(W) == {TwinOrder(W), TwinRects(W), TwinOrder(TwinRects(W))}

\* the opponent's turn a ended as the step's turn did: the same tiles on the
\* same cells, the same choice between playing and drawing
SameDecision(a) ==
    /\ a.placed = last'.ai.placed
    /\ (a.end = "crash") <=> (last'.ai.end = "crash")
    /\ (a.placed = <<>> /\ a.end = "ok") => (a.drew # NoTile /\ last'.ai.drew # NoTile)
    /\ \A k \in 1..Len(a.placed) : a.world.godPos[a.placed[k]] = godPos'[a.placed[k]]

\* the world in which the step's opponent turn started: after the human's
\* draw (line 489) or after the commit of the validate request (line 979)
TurnStart ==
    IF last'.op = "draw" THEN AddHumanTile(World, last'.tile) ELSE check_logic(World).world

\* C18: an opponent's turn is decided by the opponent's rack and the
\* committed board occupancy alone: started from any world with the same rack
\* and occupancy, and with any tile its draw may give, it places the same
\* tiles on the same cells, or draws as well
C18_Deterministic ==
    [][last'.ai.ran
       => \A W \in {TurnStart} :
             \A V \in Twins(W) :
                \A d \in AiDrawChoices(V) : SameDecision(play_ai_turn(V, d))]_vars

\* an opponent's turn after a draw has placed tiles while a tile lay
\* tentatively on the board
C18_Witness ==
    /\ last.op = "draw"
    /\ last.ai.ran
    /\ last.ai.placed # <<>>
    /\ \E t \in SeqToSet(godOrder) : OnBoard(t) /\ godPos[t] # snap[t]


\* a draw request that found no undrawn key: the human's, or the one of an
\* opponent's turn that neither placed nor drew a tile
ExhaustedDraw ==
    \/ last'.op = "draw" /\ HumanUndrawn(World) = {}
    \/ /\ last'.ai.ran /\ last'.ai.end # "crash"
       /\ last'.ai.placed = <<>> /\ last'.ai.drew = NoTile

\* C19: a draw request issued when no undrawn tile remains ends (it does not
\* wait forever) and adds no tile to a rack
C19_ExhaustedPool ==
    [][ExhaustedDraw => (run' = "running" /\ p2' = p2 /\ Len(p1') <= Len(p1) + 1)]_vars


\* C20: no validate, draw, opponent's turn or auto-play request ends in an
\* uncaught exception
C20_NoFatalError == run # "crashed"

\* C21: after auto-play every cluster on the board that holds a tile it
\* placed is a legal meld of 3 to 5 tiles that the validator accepts
C21_AutoPlayLegal ==
    last.op = "auto_play"
    => \A i \in 1..Len(Board) :
          (\E k \in 1..Len(Board[i]) : Contains(last.moved, Board[i][k][1]))
          => (/\ Len(Board[i]) \in 3..5
              /\ LegalMeld(Board[i])
              /\ MeldAccepted(Board[i]))

\* the step is one of the two sorts
SortStep == last'.op \in {"sort_by_groups", "sort_by_runs"}

\* C22: a sort changes neither the position nor the snapshot of a tile
\* committed on the board, and the membership of neither rack; only tiles of
\* the human rack change position
C22_SortFrame ==
    [][SortStep
       => (/\ \A t \in SeqToSet(idbOrder) :
                 (CenterInBox(snap[t]) \/ ~Contains(p1, t))
                 => (godPos'[t] = godPos[t] /\ snap'[t] = snap[t])
           /\ p1' = p1
           /\ p2' = p2)]_vars

\* a sort has moved a rack tile while tiles were committed on the board
C22_Witness ==
    /\ last.op \in {"sort_by_groups", "sort_by_runs"}
    /\ \E t \in SeqToSet(idbOrder) : CenterInBox(snap[t])
    /\ \E u \in SeqToSet(p1) : p1rect[u] # Alias /\ p1rect[u] # godPos[u]

\* C23: a tile released off the board ends where it was right before that
\* drag began, also when that place was a tentative one
C23_CancelledDrag ==
    [][(last'.op = "drag" /\ last'.target = OffBoard)
       => godPos'[last'.tile] = godPos[last'.tile]]_vars


C25_InitialDeal ==
    last.op = "deal"
    => /\ Len(p1) = HandSize
       /\ Cardinality(p2) = HandSize
       /\ Cardinality(SeqToSet(p1)) = HandSize
       /\ SeqToSet(p1) \cap p2 = {}

\* a deal has just filled both racks
C25_Witness ==
    /\ last.op = "deal"
    /\ Len(p1) = HandSize
    /\ Cardinality(p2) = HandSize


\* the human has asked for a tile
DrawStep == last'.op = "draw"

\* C26: a draw by the human adds exactly one tile, a new one, to the human
\* rack (PLAYER_1 gains it and it does not stand on the board) and is followed
\* by one turn of the opponent; a draw that adds no tile is not followed by a
\* turn of the opponent
C26_HumanDraw ==
    [][DrawStep
       => IF last'.tile = NoTile
          THEN p1' = p1 /\ ~last'.ai.ran
          ELSE /\ last'.tile \notin Created
               /\ SeqToSet(p1') = SeqToSet(p1) \cup {last'.tile}
               /\ ~CenterInBox(godPos'[last'.tile])
               /\ last'.ai.ran]_vars


\* the tiles of a cluster lie in one row, on cells next to one another from
\* left to right
InOneRow(c) == \A k \in 1..Len(c) : c[k][2][2] = c[1][2][2]
ColumnContiguous(c) == \A k \in 1..(Len(c) - 1) : c[k + 1][2][1] = c[k][2][1] + TileW

\* no tile of the board outside the cluster lies next to one of its ends
Maximal(c) ==
    \A t \in SeqToSet(godOrder) :
        (OnBoard(t) /\ ~Contains(c, <<t, godPos[t]>>) /\ godPos[t][2] = c[1][2][2])
        => (godPos[t][1] # c[1][2][1] - TileW /\ godPos[t][1] # c[Len(c)][2][1] + TileW)

\* no two tiles of the board lie on one cell
OneTilePerCell ==
    \A t, u \in SeqToSet(godOrder) : (OnBoard(t) /\ OnBoard(u) /\ godPos[t] = godPos[u]) => t = u

\* C27: on a board with one tile per cell, every cluster the grouper returns
\* lies in one row on column-contiguous cells and is maximal; a tile without a horizontal neighbour is a cluster
\* of its own, so tiles alone in their rows are never put in one cluster
C27_Adjacency ==
    OneTilePerCell
    => \A i \in 1..Len(Board) :
          InOneRow(Board[i]) /\ ColumnContiguous(Board[i]) /\ Maximal(Board[i])


\* the rects at positions p and q overlap
Overlap(p, q) ==
    /\ p[1] < q[1] + TileW /\ q[1] < p[1] + TileW
    /\ p[2] < q[2] + TileH /\ q[2] < p[2] + TileH

\* position p comes before q in reading order
Before(p, q) == p[2] < q[2] \/ (p[2] = q[2] /\ p[1] < q[1])

\* the tiles of the same-number sets the detector finds in the rack
GroupMatched == SeqToSet(Flatten(identify_rummikub_groups(p1)))

\* C28: after sort_by_groups the tiles of the detected same-number sets come
\* first in the rack, the others follow, every rack tile lies inside the rack
\* area (the layout wraps for matched tiles as for the others) and no two
\* rack tiles share a slot
C28_GroupLayout ==
    last.op = "sort_by_groups"
    => /\ \A t \in GroupMatched : \A u \in SeqToSet(p1) \ GroupMatched :
             Before(godPos[t], godPos[u])
       /\ \A t \in SeqToSet(p1) : InRackArea(godPos[t])
       /\ \A t, u \in SeqToSet(p1) : t # u => ~Overlap(godPos[t], godPos[u])


\* the chains the run detector finds in the rack, and their tiles
RackRuns == identify_rummikub_runs(p1)
RunMatched == SeqToSet(Flatten(RackRuns))

\* c is a chain of one colour whose numbers go up by one, and no rack tile
\* continues it at either end
MaximalStepChain(c) ==
    /\ Len(c) >= 2
    /\ \A k \in 1..(Len(c) - 1) :
          Color(c[k + 1]) = Color(c[k]) /\ Number(c[k + 1]) = Number(c[k]) + 1
    /\ \A t \in SeqToSet(p1) :
          Color(t) = Color(c[1]) => (Number(t) # Number(c[1]) - 1 /\ Number(t) # Number(c[Len(c)]) + 1)

\* a rack tile with a neighbour of its colour one number away
HasStepNeighbour(t) ==
    \E u \in SeqToSet(p1) :
        Color(u) = Color(t) /\ (Number(u) = Number(t) + 1 \/ Number(t) = Number(u) + 1)

\* C29: the run detector returns exactly the maximal chains of two or more
\* rack tiles of one colour with consecutive numbers, each tile in at most
\* one chain and once, and sort_by_runs lays the chained tiles, in ascending
\* number, before the other rack tiles
C29_RunDetector ==
    last.op = "sort_by_runs"
    => /\ \A i \in 1..Len(RackRuns) : MaximalStepChain(RackRuns[i])
       /\ \A t \in SeqToSet(p1) : HasStepNeighbour(t) => t \in RunMatched
       /\ Len(Flatten(RackRuns)) = Cardinality(RunMatched)
       /\ \A t \in RunMatched : \A u \in SeqToSet(p1) \ RunMatched : Before(godPos[t], godPos[u])
       /\ \A t, u \in RunMatched : Number(t) < Number(u) => Before(godPos[t], godPos[u])


\* the tile table filled in another order: reversed, or rotated
Rotate(s, k) == SubSeq(s, k + 1, Len(s)) \o SubSeq(s, 1, k)
Reorders(s) == {Reverse(s)} \cup {Rotate(s, k) : k \in 1..(Len(s) - 1)}
Refilled(W) == {[W EXCEPT !.godOrder = o] : o \in Reorders(W.godOrder)}

\* what a validate request decides: the verdict on each cluster, and whether
\* the turn passes to the opponent
Outcome(v) ==
    [sizes |-> v.sizes, handoff |-> v.handoff,
     verdicts |-> {<<v.clusters[i], v.status[i]>> : i \in 1..Len(v.status)}]

\* C30: the clusters of the grouper, and the order of the tiles in each,
\* depend only on where the tiles lie, not on the order in which the tile
\* table was filled; so does the outcome of validate
C30_GrouperDeterministic ==
    \A V \in Refilled(World) :
        /\ SeqToSet(get_tile_by_position(V)) = SeqToSet(Board)
        /\ \A a \in {check_logic(World)}, b \in {check_logic(V)} : Outcome(a) = Outcome(b)


\* C31: a drag starts only when no tile is held, on a pointer event over the
\* tile, and the release that ends it leaves no tile held: a tile released
\* inside the rect of another tile does not make that tile follow the pointer
C31_DragMachine ==
    [][last'.op = "drag"
       => (last'.press /\ dragging = NoTile /\ dragging' = NoTile)]_vars


\* the tiles of the same-number sets and of the chains, of 3 to 5 tiles, that
\* the detectors find in the rack
Sized(melds) == SelectSeq(melds, LAMBDA m : Len(m) \in 3..5)
RackMelds ==
    SeqToSet(Flatten(Sized(identify_rummikub_groups(p1))))
        \cup SeqToSet(Flatten(Sized(identify_rummikub_runs(p1))))

\* C32: auto-play moves to the board exactly the tiles of the detected rack
\* melds of 3 to 5 tiles, each of them once, removes exactly those from the
\* human rack, and leaves every other rack tile where it is
C32_AutoPlayTransfer ==
    [][last'.op = "auto_play"
       => (/\ run' = run
           /\ SeqToSet(last'.moved) = RackMelds
           /\ Len(last'.moved) = Cardinality(RackMelds)
           /\ SeqToSet(p1') = SeqToSet(p1) \ RackMelds
           /\ \A t \in RackMelds : CenterInBox(godPos'[t])
           /\ \A t \in SeqToSet(p1) \ RackMelds : godPos'[t] = godPos[t])]_vars


\* C33: a validate request that fails (a cluster rejected, a cluster of the
\* wrong size, or accepted and rejected clusters together) leaves the set of
\* tiles of the human rack as it was; it never empties the rack
C33_FailedKeepsRack ==
    [][(ValidateStep /\ ~ValidateSucceeded')
       => SeqToSet(p1') = SeqToSet(p1)]_vars


\* every cluster of the board of W has 3 to 5 tiles and is a meld the
\* validator accepts
BoardAccepted(W) ==
    \A c \in SeqToSet(get_tile_by_position(W)) : Len(c) \in 3..5 /\ MeldAccepted(c)

\* C34: if every cluster of the board is a meld the validator accepts when
\* the opponent's turn starts, so is every cluster when the turn is over: the
\* opponent places no meld partly outside the board, next to a cluster of the
\* same row, or of a shape the validator rejects
C34_BoardStaysValid ==
    [][last'.ai.ran
       => \A W \in {TurnStart} : BoardAccepted(W) => BoardAccepted(World')]_vars


\* the opponent's turn of the step placed melds and its rack lost exactly
\* their tiles / placed nothing and its rack gained exactly the drawn tile
OpponentPlayed ==
    /\ last'.ai.placed # <<>>
    /\ last'.ai.drew = NoTile
    /\ SeqToSet(last'.ai.placed) \subseteq p2
    /\ p2' = p2 \ SeqToSet(last'.ai.placed)
    /\ Cardinality(p2') = Cardinality(p2) - Len(last'.ai.placed)
OpponentDrew ==
    /\ last'.ai.placed = <<>>
    /\ last'.ai.drew \notin p2 \cup {NoTile}
    /\ p2' = p2 \cup {last'.ai.drew}

\* C35: in every turn of the opponent exactly one of the two happens: it
\* places at least one meld and its rack shrinks by the tiles placed, or it
\* places nothing and its rack grows by one drawn tile
C35_PlayOrDraw ==
    [][last'.ai.ran => (OpponentPlayed \/ OpponentDrew)]_vars


\* C36: game over is absorbing.  Once a rack of the dealt game is empty, no
\* event changes which tiles the racks hold, and validate, draw, sort,
\* auto-play and the opponent's turn no longer run: the only event left is a
\* drag, and an opponent's turn starts only while both racks hold tiles
C36_GameOverAbsorbing ==
    [][/\ (GameOver(World) /\ last'.op # "deal")
          => (p1' = p1 /\ p2' = p2 /\ last'.op = "drag" /\ ~last'.ai.ran)
       /\ last'.ai.ran => \A W \in {TurnStart} : ~GameOver(W)]_vars


\* C37: after a validate request, accepted or not, the human rack set holds
\* no tile whose committed position is on the board, and no tile that left
\* the set has its committed position in the rack area
C37_RackMatchesLocation ==
    last.op = "validate"
    => /\ \A t \in SeqToSet(p1) : ~CenterInBox(snap[t])
       /\ \A t \in SeqToSet(godOrder) \ SeqToSet(p1) : ~InRackArea(snap[t])

=============================================================================
